---- MODULE Spec2Model ----
(***************************************************************************)
(* Orchestration layer of the travel agent backend: the agent registry and *)
(* dispatcher (AgentManager.process), the sequential workflow executor     *)
(* (AgentManager.process_workflow), the process() contract of the agents,  *)
(* and the payment and notification tools with their in-memory tables.     *)
(* The language-model planner behind AgentExecutor.arun is an external     *)
(* collaborator: it picks tools and payloads nondeterministically, for at  *)
(* most max_iterations rounds, and then returns a text or raises.          *)
(***************************************************************************)
EXTENDS Integers, Sequences, FiniteSets, TLC

(* ---------------- bounds of the model ---------------- *)
MaxSteps == 3
MaxTxn == 2
MaxUuid == 3
MaxNotif == 2
MaxClock == 1
MaxOptions == 3

(* max_iterations=5 handed to initialize_agent by every agent *)
MaxIterations == 5

(* ---------------- JSON-like values ---------------- *)
Null == [t |-> "null"]
Num(n) == [t |-> "num", n |-> n]
Str(s) == [t |-> "str", s |-> s]
Bool(b) == [t |-> "bool", b |-> b]
Time(n) == [t |-> "time", at |-> n]
TxnId(n) == [t |-> "id", txn |-> n]
RefId(n) == [t |-> "id", ref |-> n]
NotifId(n) == [t |-> "id", notif |-> n]
EmptyMap == <<>>

(* dict.get(key, default) *)
Get(d, k, default) == IF k \in DOMAIN d THEN d[k] ELSE default

(* d[k] = v on a dict *)
Put(d, k, v) == [x \in DOMAIN d \cup {k} |-> IF x = k THEN v ELSE d[x]]

(* a raw tool payload: text that json.loads rejects, JSON that is not an   *)
(* object, or a JSON object with the fields f                              *)
Malformed == [j |-> "malformed"]
NonObject == [j |-> "array"]
Object(f) == [j |-> "object", f |-> f]

ToolError(msg) == [status |-> "error", message |-> msg]

(* the exception text of json.loads / of .get on a non-dict *)
ParseMessage(payload) ==
    IF payload.j = "malformed" THEN <<"JSONDecodeError">>
    ELSE <<"AttributeError: 'list' object has no attribute 'get'">>

(* ---------------- PaymentAgent tools ---------------- *)
(* every tool returns the new table and the (JSON) result it dumps *)

(* payment_successful = True: the simulated processor never fails *)
PaymentSuccessful == TRUE

(* refund_successful = True *)
RefundSuccessful == TRUE

(* PaymentAgent._process_payment; uuid is the fresh token of uuid.uuid4() *)
ProcessPayment(txns, payload, uuid, clock) ==
    IF payload.j # "object"
    THEN [table |-> txns, result |-> ToolError(ParseMessage(payload))]
    ELSE LET data == payload.f
             transaction_id == TxnId(uuid)
             transaction ==
                 [transaction_id |-> transaction_id,
                  amount |-> Get(data, "amount", Null),
                  currency |-> Get(data, "currency", Str("USD")),
                  status |-> IF PaymentSuccessful THEN "completed" ELSE "failed",
                  payment_method |-> Get(data, "payment_method", Null),
                  booking_reference |-> Get(data, "booking_reference", Null),
                  user_id |-> Get(data, "user_id", Null),
                  timestamp |-> Time(clock)]
         IN [table |-> Put(txns, transaction_id, transaction),
             result |->
                 [status |-> IF PaymentSuccessful THEN "success" ELSE "error",
                  transaction_id |-> transaction_id,
                  message |-> IF PaymentSuccessful
                              THEN <<"Payment processed successfully">>
                              ELSE <<"Payment failed">>]]

(* a refund that also marks the transaction as refunded *)
RefundFieldsMarksStatus(transaction, refund_id, refund_amount, clock) ==
    Put(Put(Put(Put(transaction, "refund_id", refund_id),
                "refund_amount", refund_amount),
            "refund_timestamp", Time(clock)),
        "status", "refunded")

(* the three assignments of the refund branch *)
RefundFields(transaction, refund_id, refund_amount, clock) ==
    Put(Put(Put(transaction, "refund_id", refund_id),
            "refund_amount", refund_amount),
        "refund_timestamp", Time(clock))

(* the default of the refund amount forgotten *)
RefundAmountNoDefault(data, transaction) == Get(data, "amount", Null)

(* refund_amount = data.get("amount", transaction["amount"]) *)
RefundAmount(data, transaction) == Get(data, "amount", transaction["amount"])

(* PaymentAgent._process_refund *)
ProcessRefund(txns, payload, uuid, clock) ==
    IF payload.j # "object"
    THEN [table |-> txns, result |-> ToolError(ParseMessage(payload))]
    ELSE LET data == payload.f
             transaction_id == Get(data, "transaction_id", Null)
         IN IF transaction_id \notin DOMAIN txns
            THEN [table |-> txns, result |-> ToolError(<<"Transaction not found">>)]
            ELSE LET transaction == txns[transaction_id]
                     refund_amount == RefundAmount(data, transaction)
                     refund_id == RefId(uuid)
                 IN IF RefundSuccessful
                    THEN [table |-> Put(txns, transaction_id,
                                        RefundFields(transaction, refund_id,
                                                     refund_amount, clock)),
                          result |-> [status |-> "success",
                                      refund_id |-> refund_id,
                                      amount_refunded |-> refund_amount,
                                      message |-> <<"Refund processed successfully">>]]
                    ELSE [table |-> txns, result |-> ToolError(<<"Refund failed">>)]

(* a status lookup that takes the transaction out of the table *)
GetTransactionStatusPops(txns, payload) ==
    IF payload.j # "object"
    THEN [table |-> txns, result |-> ToolError(ParseMessage(payload))]
    ELSE LET transaction_id == Get(payload.f, "transaction_id", Null)
         IN IF transaction_id \notin DOMAIN txns
            THEN [table |-> txns, result |-> ToolError(<<"Transaction not found">>)]
            ELSE [table |-> [id \in DOMAIN txns \ {transaction_id} |-> txns[id]],
                  result |-> [status |-> "success",
                              transaction |-> txns[transaction_id]]]

(* PaymentAgent._get_transaction_status *)
GetTransactionStatus(txns, payload) ==
    IF payload.j # "object"
    THEN [table |-> txns, result |-> ToolError(ParseMessage(payload))]
    ELSE LET transaction_id == Get(payload.f, "transaction_id", Null)
         IN IF transaction_id \notin DOMAIN txns
            THEN [table |-> txns, result |-> ToolError(<<"Transaction not found">>)]
            ELSE [table |-> txns,
                  result |-> [status |-> "success",
                              transaction |-> txns[transaction_id]]]

(* ---------------- NotificationAgent tools ---------------- *)

(* _send_notification, had it stored the record before the payload is parsed *)
SendNotificationStoresFirst(notifs, payload, clock) ==
    LET data == IF payload.j = "object" THEN payload.f ELSE EmptyMap
        notification_id == NotifId(Cardinality(DOMAIN notifs) + 1)
        notification ==
            [notification_id |-> notification_id,
             user_id |-> Get(data, "user_id", Null),
             title |-> Get(data, "title", Null),
             message |-> Get(data, "message", Null),
             notification_type |-> Get(data, "notification_type", Str("email")),
             metadata |-> Get(data, "metadata", EmptyMap),
             is_read |-> FALSE,
             created_at |-> Time(clock)]
    IN [table |-> Put(notifs, notification_id, notification),
        result |-> IF payload.j # "object"
                   THEN ToolError(ParseMessage(payload))
                   ELSE [status |-> "success",
                         notification_id |-> notification_id,
                         message |-> <<"Notification sent successfully">>]]

(* _send_notification with the id taken from the size of the table as it is *)
SendNotificationReusesId(notifs, payload, clock) ==
    IF payload.j # "object"
    THEN [table |-> notifs, result |-> ToolError(ParseMessage(payload))]
    ELSE LET data == payload.f
             size == Cardinality(DOMAIN notifs)
             notification_id == NotifId(IF size = 0 THEN 1 ELSE size)
             notification ==
                 [notification_id |-> notification_id,
                  user_id |-> Get(data, "user_id", Null),
                  title |-> Get(data, "title", Null),
                  message |-> Get(data, "message", Null),
                  notification_type |-> Get(data, "notification_type", Str("email")),
                  metadata |-> Get(data, "metadata", EmptyMap),
                  is_read |-> FALSE,
                  created_at |-> Time(clock)]
         IN [table |-> Put(notifs, notification_id, notification),
             result |-> [status |-> "success",
                         notification_id |-> notification_id,
                         message |-> <<"Notification sent successfully">>]]

(* NotificationAgent._send_notification *)
SendNotification(notifs, payload, clock) ==
    IF payload.j # "object"
    THEN [table |-> notifs, result |-> ToolError(ParseMessage(payload))]
    ELSE LET data == payload.f
             notification_id == NotifId(Cardinality(DOMAIN notifs) + 1)
             notification ==
                 [notification_id |-> notification_id,
                  user_id |-> Get(data, "user_id", Null),
                  title |-> Get(data, "title", Null),
                  message |-> Get(data, "message", Null),
                  notification_type |-> Get(data, "notification_type", Str("email")),
                  metadata |-> Get(data, "metadata", EmptyMap),
                  is_read |-> FALSE,
                  created_at |-> Time(clock)]
         IN [table |-> Put(notifs, notification_id, notification),
             result |-> [status |-> "success",
                         notification_id |-> notification_id,
                         message |-> <<"Notification sent successfully">>]]

(* a mark that flips is_read instead of setting it *)
MarkReadToggles(notification, clock) ==
    Put(Put(notification, "is_read", ~notification.is_read), "read_at", Time(clock))

(* the two assignments of _mark_notification_read *)
MarkRead(notification, clock) ==
    Put(Put(notification, "is_read", TRUE), "read_at", Time(clock))

(* NotificationAgent._mark_notification_read *)
MarkNotificationRead(notifs, payload, clock) ==
    IF payload.j # "object"
    THEN [table |-> notifs, result |-> ToolError(ParseMessage(payload))]
    ELSE LET notification_id == Get(payload.f, "notification_id", Null)
         IN IF notification_id \notin DOMAIN notifs
            THEN [table |-> notifs, result |-> ToolError(<<"Notification not found">>)]
            ELSE [table |-> Put(notifs, notification_id,
                                MarkRead(notifs[notification_id], clock)),
                  result |-> [status |-> "success",
                              message |-> <<"Notification marked as read">>]]

(* the stored notifications in the order of self.notifications.values():    *)
(* insertion order, which is the order of the ids                           *)
Values(notifs) ==
    [i \in 1..Cardinality(DOMAIN notifs) |->
        notifs[CHOOSE id \in DOMAIN notifs :
                   Cardinality({other \in DOMAIN notifs : other.notif <= id.notif}) = i]]

(* a sort that puts the oldest first *)
InsertOldestFirst(sorted, x) ==
    LET ahead == Cardinality({i \in 1..Len(sorted) :
                                  sorted[i].created_at.at <= x.created_at.at})
    IN SubSeq(sorted, 1, ahead) \o <<x>> \o SubSeq(sorted, ahead + 1, Len(sorted))

(* list.sort(key=created_at, reverse=True): stable, newest first; x goes    *)
(* behind every element whose key is not smaller than its own               *)
InsertDesc(sorted, x) ==
    LET ahead == Cardinality({i \in 1..Len(sorted) :
                                  sorted[i].created_at.at >= x.created_at.at})
    IN SubSeq(sorted, 1, ahead) \o <<x>> \o SubSeq(sorted, ahead + 1, Len(sorted))

RECURSIVE SortNewestFirst(_)
SortNewestFirst(seq) ==
    IF seq = <<>> THEN <<>>
    ELSE InsertDesc(SortNewestFirst(SubSeq(seq, 1, Len(seq) - 1)), seq[Len(seq)])

(* limit = data.get("limit", 10) *)
DefaultLimit == 10

(* user_notifications[:limit] for a limit >= 0 *)
Truncate(seq, limit) == SubSeq(seq, 1, IF limit < Len(seq) THEN limit ELSE Len(seq))

(* truthiness of data.get("unread_only", False) *)
Truthy(v) == IF v.t = "bool" THEN v.b ELSE v.t # "null"

(* NotificationAgent._get_user_notifications *)
GetUserNotifications(notifs, payload) ==
    IF payload.j # "object"
    THEN [table |-> notifs, result |-> ToolError(ParseMessage(payload))]
    ELSE LET data == payload.f
             user_id == Get(data, "user_id", Null)
             limit == Get(data, "limit", Num(DefaultLimit))
             unread_only == Get(data, "unread_only", Bool(FALSE))
             owned == SelectSeq(Values(notifs), LAMBDA n : n.user_id = user_id)
             kept == IF Truthy(unread_only)
                     THEN SelectSeq(owned, LAMBDA n : ~n.is_read)
                     ELSE owned
             user_notifications == SortNewestFirst(kept)
         IN [table |-> notifs,
             result |->
                 [status |-> "success",
                  notifications |-> Truncate(user_notifications, limit.n),
                  total |-> Len(user_notifications),
                  unread_count |->
                      Cardinality({i \in 1..Len(user_notifications) :
                                       ~user_notifications[i].is_read})]]

(* ---------------- SearchAgent tools ---------------- *)
(* f"{params.get(key)}T10:00:00" *)
At(params, key, suffix) == <<Get(params, key, Null), suffix>>

(* SearchAgent._search_flights *)
SearchFlights(payload) ==
    IF payload.j # "object"
    THEN ToolError(ParseMessage(payload))
    ELSE LET params == payload.f
         IN [status |-> "success",
             results |-> <<[id |-> "flt_123",
                            airline |-> "Demo Airlines",
                            flight_number |-> "DA123",
                            origin |-> Get(params, "origin", Str("Unknown")),
                            destination |-> Get(params, "destination", Str("Unknown")),
                            departure_time |-> At(params, "departure_date", "T10:00:00"),
                            arrival_time |-> At(params, "departure_date", "T12:00:00"),
                            price |-> <<299, 99>>,
                            currency |-> "USD"]>>]

(* SearchAgent._search_trains *)
SearchTrains(payload) ==
    IF payload.j # "object"
    THEN ToolError(ParseMessage(payload))
    ELSE LET params == payload.f
         IN [status |-> "success",
             results |-> <<[id |-> "train_456",
                            train_name |-> "Express Train",
                            train_number |-> "ET456",
                            origin |-> Get(params, "origin", Str("Unknown")),
                            destination |-> Get(params, "destination", Str("Unknown")),
                            departure_time |-> At(params, "date", "T08:30:00"),
                            arrival_time |-> At(params, "date", "T11:45:00"),
                            price |-> <<89, 99>>,
                            currency |-> "USD",
                            class |-> "Standard"]>>]

(* ---------------- OptimizerAgent tools ---------------- *)
(* the numbers of an option (price, duration_minutes) are counted in tenths, *)
(* so that a JSON number with a fractional part has a value here            *)

(* float('inf') *)
Inf == [t |-> "inf"]

(* float(x): the number itself; TypeError for null *)
ToFloat(x) ==
    IF x.t \in {"num", "inf"} THEN [raised |-> FALSE, key |-> x]
    ELSE [raised |-> TRUE, message |-> <<"TypeError: float() argument">>]

(* int(x): truncation of a number to whole units; OverflowError for          *)
(* infinity, TypeError for null                                             *)
ToInt(x) ==
    IF x.t = "num" THEN [raised |-> FALSE, key |-> Num((x.n \div 10) * 10)]
    ELSE IF x.t = "inf"
    THEN [raised |-> TRUE,
          message |-> <<"OverflowError: cannot convert float infinity to integer">>]
    ELSE [raised |-> TRUE, message |-> <<"TypeError: int() argument">>]

(* a <= b on the keys min() compares *)
KeyLeq(a, b) == IF b.t = "inf" THEN TRUE ELSE IF a.t = "inf" THEN FALSE ELSE a.n <= b.n

(* lambda x: float(x.get("price", float('inf'))) *)
PriceKey(x) == ToFloat(Get(x, "price", Inf))

(* lambda x: int(x.get("duration_minutes", float('inf'))) *)
DurationKey(x) == ToInt(Get(x, "duration_minutes", Inf))

(* the key function of a tool *)
KeyOf(tool, x) == IF tool = "find_cheapest_option" THEN PriceKey(x) ELSE DurationKey(x)

(* min(options, key=...): the first element whose key no other key is below *)
MinBy(options, tool) ==
    LET first == CHOOSE i \in 1..Len(options) :
                     /\ \A j \in 1..Len(options) :
                            KeyLeq(KeyOf(tool, options[i]).key, KeyOf(tool, options[j]).key)
                     /\ \A j \in 1..(i - 1) :
                            ~KeyLeq(KeyOf(tool, options[j]).key, KeyOf(tool, options[i]).key)
    IN options[first]

(* the body shared by _find_cheapest_option and _find_fastest_option: the   *)
(* key function raises on the first option it cannot convert                *)
FindMin(payload, tool) ==
    IF payload.j # "object"
    THEN ToolError(ParseMessage(payload))
    ELSE LET options == Get(payload.f, "options", <<>>)
             bad == {i \in 1..Len(options) : KeyOf(tool, options[i]).raised}
         IN IF options = <<>>
            THEN ToolError(<<"No options provided">>)
            ELSE IF bad # {}
            THEN ToolError(KeyOf(tool, options[CHOOSE i \in bad : \A j \in bad : i <= j]).message)
            ELSE [status |-> "success", result |-> MinBy(options, tool)]

(* OptimizerAgent._find_cheapest_option *)
FindCheapestOption(payload) == FindMin(payload, "find_cheapest_option")

(* OptimizerAgent._find_fastest_option *)
FindFastestOption(payload) == FindMin(payload, "find_fastest_option")

(* the maximum without the `or 1` *)
MaxOfKeepsZero(options, field) ==
    LET values == {Get(options[i], field, Num(0)).n : i \in 1..Len(options)}
    IN CHOOSE v \in values : \A w \in values : w <= v

(* max(opt.get(field, 0) for opt in options) or 1 *)
MaxOf(options, field) ==
    LET values == {Get(options[i], field, Num(0)).n : i \in 1..Len(options)}
        largest == CHOOSE v \in values : \A w \in values : w <= v
    IN IF largest = 0 THEN 1 ELSE largest

(* preferences.get(name, 0.5), in tenths *)
DefaultImportance == 5
Importance(preferences, name) == Get(preferences, name, Num(DefaultImportance)).n

(* calculate_score(option), multiplied by max_price * max_duration * 10 so  *)
(* that it stays an integer; the order of two scores is unchanged           *)
CalculateScore(option, options, preferences) ==
    LET max_price == MaxOf(options, "price")
        max_duration == MaxOf(options, "duration_minutes")
    IN (max_price - Get(option, "price", Num(0)).n) * max_duration
            * Importance(preferences, "price_importance")
       + (max_duration - Get(option, "duration_minutes", Num(0)).n) * max_price
            * Importance(preferences, "duration_importance")

(* sorted(options, key=calculate_score, reverse=True): stable, best first *)
RECURSIVE Ranked(_, _, _)
Ranked(seq, options, preferences) ==
    IF seq = <<>> THEN <<>>
    ELSE LET sorted == Ranked(SubSeq(seq, 1, Len(seq) - 1), options, preferences)
             x == seq[Len(seq)]
             ahead == Cardinality({i \in 1..Len(sorted) :
                          CalculateScore(sorted[i], options, preferences)
                              >= CalculateScore(x, options, preferences)})
         IN SubSeq(sorted, 1, ahead) \o <<x>> \o SubSeq(sorted, ahead + 1, Len(sorted))

(* OptimizerAgent._recommend_based_on_preferences; the divisions of lines    *)
(* 121 and 126 raise when the divisor is 0                                  *)
RecommendBasedOnPreferences(payload) ==
    IF payload.j # "object"
    THEN ToolError(ParseMessage(payload))
    ELSE LET options == Get(payload.f, "options", <<>>)
             preferences == Get(payload.f, "preferences", EmptyMap)
         IN IF options = <<>>
            THEN ToolError(<<"No options provided">>)
            ELSE IF MaxOf(options, "price") = 0 \/ MaxOf(options, "duration_minutes") = 0
            THEN ToolError(<<"ZeroDivisionError: division by zero">>)
            ELSE LET ranked == Ranked(options, options, preferences)
                 IN [status |-> "success", result |-> ranked[1], all_ranked |-> ranked]

(* ---------------- state ---------------- *)
VARIABLES
    agentBuilt,     \* registry key -> whether self.agent (the AgentExecutor) is set
    transactions,   \* PaymentAgent.transactions
    notifications,  \* NotificationAgent.notifications
    uuids,          \* how many uuid4() tokens have been drawn
    now,            \* datetime.utcnow()
    lastTool,       \* the last direct tool invocation and what it returned
    calls,          \* requester -> the Agent.process call it awaits, if any
    lastAgent,      \* how the last Agent.process call ended
    api,            \* the direct caller of AgentManager.process
    workflow,       \* the list handed to process_workflow (its dicts are live)
    wfInput,        \* the same list as the caller wrote it
    wfPc,           \* where process_workflow stands
    wfI,            \* the loop index i
    results,        \* results["step_<i>"], as i -> result
    wfStatus,       \* results["status"], "unset" while the key is missing
    failedStep,     \* results["failed_step"], {} while the key is missing
    context,        \* the local context of process_workflow
    dispatched,     \* the process() calls the workflow made, in order
    bookings,       \* the rows of the bookings table, as committed
    cancel          \* where cancel_booking stands, with its session's row

agentVars == <<agentBuilt, transactions, notifications, uuids, now>>
callVars == <<calls, lastAgent>>
wfVars == <<workflow, wfInput, wfPc, wfI, results, wfStatus, failedStep, context,
            dispatched>>
bookingVars == <<bookings, cancel>>
vars == <<agentVars, lastTool, callVars, api, wfVars, bookingVars>>

(* ---------------- the registry ---------------- *)
(* AgentManager.__init__: self.agents *)
Registry == {"search", "optimizer", "payment", "notification"}

(* self.name of each agent *)
ClassName(key) ==
    CASE key = "search" -> "SearchAgent"
      [] key = "optimizer" -> "OptimizerAgent"
      [] key = "payment" -> "PaymentAgent"
      [] key = "notification" -> "NotificationAgent"

(* the tools _setup_tools registers that write or read a table *)
TableTools(key) ==
    CASE key = "payment" ->
             {"process_payment", "refund_payment", "get_transaction_status"}
      [] key = "notification" -> {"send_notification", "get_user_notifications",
                                  "mark_notification_read"}
      [] OTHER -> {}

(* the tools each agent registers in _setup_tools *)
Tools(key) ==
    CASE key = "search" -> {"search_flights", "search_trains"}
      [] key = "optimizer" -> {"find_cheapest_option", "find_fastest_option",
                               "recommend_based_on_preferences"}
      [] key = "payment" -> {"process_payment", "refund_payment",
                             "get_transaction_status"}
      [] key = "notification" -> {"send_notification", "get_user_notifications",
                                  "mark_notification_read"}

Requesters == {"api", "wf", "bookings"}
Idle == [st |-> "idle"]

(* ---------------- AgentManager.process ---------------- *)
NotFound(agent_name) ==
    [status |-> "error", message |-> <<"Agent '", agent_name, "' not found">>]

(* the except branch of AgentManager.process *)
Caught(agent_name, e) ==
    [status |-> "error", message |-> <<e>>, agent |-> agent_name]

(* the return of the try branch *)
Wrapped(out) ==
    [status |-> "success", output |-> out.output, metadata |-> out.metadata]

(* AgentInput(query=..., context=...): pydantic rejects a query that is no str *)
QueryOf(input_data) == Get(input_data, "query", Str(""))
ContextOf(input_data) == Get(input_data, "context", EmptyMap)
ValidQuery(q) == q.t = "str"

(* a planner that is handed the context with the query *)
PlannerRequestWithContext(agent_input) == <<agent_input.query, agent_input.context>>

(* self.agent.arun(input_data.query): what the planner is handed *)
PlannerRequest(agent_input) == <<agent_input.query>>

(* the input validated before the registry is consulted *)
EntryValidatesFirst(agent_name, input_data, buildOk) ==
    IF ~ValidQuery(QueryOf(input_data))
    THEN [kind |-> "raise", exc |-> "ValidationError"]
    ELSE IF agent_name \notin Registry
    THEN [kind |-> "return", result |-> NotFound(agent_name)]
    ELSE IF ~agentBuilt[agent_name] /\ ~buildOk
    THEN [kind |-> "return", result |-> Caught(agent_name, "get_agent failed")]
    ELSE [kind |-> "await",
          call |-> [st |-> "planning", agent |-> agent_name,
                    query |-> QueryOf(input_data),
                    context |-> ContextOf(input_data),
                    request |-> PlannerRequest([query |-> QueryOf(input_data),
                                                context |-> ContextOf(input_data)]),
                    rounds |-> 0]]

(* AgentManager.process up to the point where it awaits the planner.        *)
(* buildOk: whether get_agent() (initialize_agent) returns; it is called     *)
(* before the try of the agent's process, so its exception leaves process    *)
(* and is caught by the manager.                                             *)
Entry(agent_name, input_data, buildOk) ==
    IF agent_name \notin Registry
    THEN [kind |-> "return", result |-> NotFound(agent_name)]
    ELSE IF ~ValidQuery(QueryOf(input_data))
    THEN [kind |-> "raise", exc |-> "ValidationError"]
    ELSE IF ~agentBuilt[agent_name] /\ ~buildOk
    THEN [kind |-> "return", result |-> Caught(agent_name, "get_agent failed")]
    ELSE [kind |-> "await",
          call |-> [st |-> "planning", agent |-> agent_name,
                    query |-> QueryOf(input_data),
                    context |-> ContextOf(input_data),
                    request |-> PlannerRequest([query |-> QueryOf(input_data),
                                                context |-> ContextOf(input_data)]),
                    rounds |-> 0]]

(* the agents made anew for each request: only the one called is built *)
BuiltAfterPerRequest(agent_name, e) ==
    [a \in Registry |-> a = agent_name /\ e.kind = "await"]

(* self.agent after the entry *)
BuiltAfter(agent_name, e) ==
    IF e.kind = "await" THEN [agentBuilt EXCEPT ![agent_name] = TRUE] ELSE agentBuilt

(* how Agent.process ended, when the entry already decides it *)
AgentAfterEntry(agent_name, e) ==
    IF e.kind = "return" /\ agent_name \in Registry
    THEN [kind |-> "raised", agent |-> agent_name, exc |-> "get_agent failed"]
    ELSE lastAgent

(* the two returns of an agent's process: after arun returned, and the except *)
AgentOutput(key, raised) ==
    IF raised
    THEN [output |-> <<"An error occurred: ", "planner error">>,
          metadata |-> [agent |-> ClassName(key), error |-> TRUE]]
    ELSE [output |-> <<"answer">>, metadata |-> [agent |-> ClassName(key)]]

(* ---------------- the planner: tool rounds ---------------- *)
(* one tool invocation on the tables of the agents, as the state after it *)
ToolRun(tool, payload) ==
    LET base == [txns |-> transactions, notifs |-> notifications, uuids |-> uuids]
    IN CASE tool = "process_payment" ->
                 LET r == ProcessPayment(transactions, payload, uuids + 1, now)
                 IN [base EXCEPT !.txns = r.table,
                                 !.uuids = IF r.table = transactions THEN uuids
                                           ELSE uuids + 1]
                    @@ [result |-> r.result]
         [] tool = "refund_payment" ->
                 LET r == ProcessRefund(transactions, payload, uuids + 1, now)
                 IN [base EXCEPT !.txns = r.table,
                                 !.uuids = IF r.table = transactions THEN uuids
                                           ELSE uuids + 1]
                    @@ [result |-> r.result]
         [] tool = "get_transaction_status" ->
                 LET r == GetTransactionStatus(transactions, payload)
                 IN [base EXCEPT !.txns = r.table] @@ [result |-> r.result]
         [] tool = "send_notification" ->
                 LET r == SendNotification(notifications, payload, now)
                 IN [base EXCEPT !.notifs = r.table] @@ [result |-> r.result]
         [] tool = "mark_notification_read" ->
                 LET r == MarkNotificationRead(notifications, payload, now)
                 IN [base EXCEPT !.notifs = r.table] @@ [result |-> r.result]
         [] tool = "get_user_notifications" ->
                 LET r == GetUserNotifications(notifications, payload)
                 IN [base EXCEPT !.notifs = r.table] @@ [result |-> r.result]
         [] tool = "search_flights" -> base @@ [result |-> SearchFlights(payload)]
         [] tool = "search_trains" -> base @@ [result |-> SearchTrains(payload)]
         [] tool = "find_cheapest_option" ->
                 base @@ [result |-> FindCheapestOption(payload)]
         [] tool = "find_fastest_option" ->
                 base @@ [result |-> FindFastestOption(payload)]
         [] tool = "recommend_based_on_preferences" ->
                 base @@ [result |-> RecommendBasedOnPreferences(payload)]

(* the tables stay within the bounds of the model *)
WithinBounds(after) ==
    /\ Cardinality(DOMAIN after.txns) <= MaxTxn
    /\ after.uuids <= MaxUuid
    /\ Cardinality(DOMAIN after.notifs) <= MaxNotif

(* the payloads the planner of a workflow step hands to a tool *)
WorkflowPayloads(tool) ==
    CASE tool = "process_payment" -> {Object([amount |-> Num(10)])}
      [] tool = "send_notification" -> {Object([user_id |-> Str("u1")])}
      [] OTHER -> {}

(* the payloads the planner hands to a tool during an agent call *)
PlannerPayloads(tool) ==
    CASE tool = "process_payment" -> {Object([amount |-> Num(10)]), Malformed}
      [] tool = "refund_payment" -> {Object([transaction_id |-> TxnId(1)])}
      [] tool = "get_transaction_status" -> {Object([transaction_id |-> TxnId(1)])}
      [] tool = "send_notification" -> {Object([user_id |-> Str("u1")])}
      [] tool = "get_user_notifications" -> {Object([user_id |-> Str("u1")])}
      [] tool = "mark_notification_read" -> {Object([notification_id |-> NotifId(1)])}

(* the planner of requester r's agent call invokes one tool *)
ToolRound(r, tool, payload) ==
    /\ calls[r].st = "planning"
    /\ calls[r].rounds < MaxIterations
    /\ tool \in TableTools(calls[r].agent)
    /\ LET after == ToolRun(tool, payload)
       IN /\ WithinBounds(after)
          /\ transactions' = after.txns
          /\ notifications' = after.notifs
          /\ uuids' = after.uuids
    /\ calls' = [calls EXCEPT ![r].rounds = @ + 1]
    /\ UNCHANGED <<agentBuilt, now, lastTool, lastAgent, api, bookingVars, wfVars>>

(* ---------------- a direct caller of AgentManager.process ---------------- *)
ApiNames == Registry \cup {"badagent", "PaymentAgent"}
ApiInputs ==
    {EmptyMap,
     [query |-> Str("q")],
     [query |-> Null],
     [query |-> Str("q"), context |-> Null],
     [query |-> Str("q"), context |-> [k |-> Str("v")]]}

(* AgentManager.process(agent_name, input_data), up to its await or its end *)
ApiCall(agent_name, input_data, buildOk) ==
    /\ api.st # "await"
    /\ LET e == Entry(agent_name, input_data, buildOk)
           called == [agent_name |-> agent_name, input_data |-> input_data]
       IN /\ api' = CASE e.kind = "return" ->
                            called @@ [st |-> "returned", result |-> e.result]
                      [] e.kind = "raise" ->
                            called @@ [st |-> "raised", exc |-> e.exc]
                      [] e.kind = "await" -> called @@ [st |-> "await"]
          /\ calls' = [calls EXCEPT !["api"] =
                          IF e.kind = "await" THEN e.call ELSE Idle]
          /\ agentBuilt' = BuiltAfter(agent_name, e)
          /\ lastAgent' = AgentAfterEntry(agent_name, e)
    /\ UNCHANGED <<transactions, notifications, uuids, now, lastTool, wfVars, bookingVars>>

(* the planner returns (or raises) and AgentManager.process returns *)
ApiFinish(raised) ==
    /\ calls["api"].st = "planning"
    /\ LET out == AgentOutput(calls["api"].agent, raised)
       IN /\ lastAgent' = [kind |-> "returned", agent |-> calls["api"].agent,
                           out |-> out]
          /\ api' = [agent_name |-> api.agent_name, input_data |-> api.input_data,
                     st |-> "returned", result |-> Wrapped(out)]
    /\ calls' = [calls EXCEPT !["api"] = Idle]
    /\ UNCHANGED <<agentVars, lastTool, wfVars, bookingVars>>

(* ---------------- initial state ---------------- *)
Init ==
    /\ agentBuilt = [a \in Registry |-> FALSE]
    /\ transactions = EmptyMap
    /\ notifications = EmptyMap
    /\ uuids = 0
    /\ now = 0
    /\ lastTool = [tool |-> "none"]
    /\ calls = [r \in Requesters |-> Idle]
    /\ lastAgent = [kind |-> "none"]
    /\ api = [st |-> "idle"]
    /\ workflow = <<>>
    /\ wfInput = <<>>
    /\ wfPc = "idle"
    /\ wfI = 0
    /\ results = EmptyMap
    /\ wfStatus = "unset"
    /\ failedStep = {}
    /\ context = EmptyMap
    /\ dispatched = <<>>
    /\ bookings = EmptyMap
    /\ cancel = [st |-> "idle"]

(* requests to the manager, one at a time or interleaved with a tool round *)
Next ==
    \/ \E a \in ApiNames, i \in ApiInputs, b \in BOOLEAN : ApiCall(a, i, b)
    \/ \E t \in TableTools("payment") \cup TableTools("notification") :
           \E p \in PlannerPayloads(t) : ToolRound("api", t, p)
    \/ \E raised \in BOOLEAN : ApiFinish(raised)

Spec == Init /\ [][Next]_vars

(* ---------------- AgentManager.process_workflow ---------------- *)
NoAgentResult == [status |-> "error", message |-> <<"No agent specified">>]

(* `not agent_name` for agent_name = step.get("agent") *)
NoAgent(step) == IF "agent" \in DOMAIN step THEN step.agent = "" ELSE TRUE

(* a merge in which the keys of d are kept *)
UpdateKeepsOwn(d, other) ==
    [k \in DOMAIN d \cup DOMAIN other |-> IF k \in DOMAIN d THEN d[k] ELSE other[k]]

(* dict.update: the keys of other replace those of d *)
Update(d, other) ==
    [k \in DOMAIN d \cup DOMAIN other |-> IF k \in DOMAIN other THEN other[k] ELSE d[k]]

(* step_input after lines 62-65, for a step whose context is a dict or absent *)
StepInput(step, ctx) ==
    LET step_input == Get(step, "input", EmptyMap)
        own == Get(step_input, "context", EmptyMap)
    IN Put(step_input, "context", Update(own, ctx))

(* step_input["context"] is None: .update raises AttributeError *)
NullContext(step) == Get(Get(step, "input", EmptyMap), "context", EmptyMap) = Null

(* the caller's step after the merge: the dict under "input" is the one mutated *)
StepAfter(step, ctx) ==
    IF "input" \in DOMAIN step THEN Put(step, "input", StepInput(step, ctx)) ELSE step

(* the final status written whatever was there *)
FinalStatusOverwrites(status) == "success"

(* lines 80-81 *)
FinalStatus(status) == IF status = "unset" THEN "success" ELSE status

(* the loop moves to step i + 1, or ends and process_workflow returns *)
Advance ==
    /\ wfI' = wfI + 1
    /\ IF wfI + 1 = Len(workflow)
       THEN wfPc' = "done" /\ wfStatus' = FinalStatus(wfStatus)
       ELSE wfPc' = "loop" /\ UNCHANGED wfStatus

(* the loop without its break *)
RecordNoBreak(agent_name, result) ==
    /\ results' = Put(results, wfI, result)
    /\ wfI' = wfI + 1
    /\ wfPc' = IF wfI + 1 = Len(workflow) THEN "done" ELSE "loop"
    /\ IF result.status = "error"
       THEN /\ wfStatus' = "error"
            /\ failedStep' = {wfI}
            /\ UNCHANGED context
       ELSE /\ context' = Put(context, agent_name, result)
            /\ wfStatus' = IF wfI + 1 = Len(workflow)
                           THEN FinalStatus(wfStatus) ELSE wfStatus
            /\ UNCHANGED failedStep

(* the context written before the status is looked at *)
RecordContextAlways(agent_name, result) ==
    /\ results' = Put(results, wfI, result)
    /\ context' = Put(context, agent_name, result)
    /\ IF result.status = "error"
       THEN /\ wfStatus' = "error"
            /\ failedStep' = {wfI}
            /\ wfPc' = "done"
            /\ UNCHANGED wfI
       ELSE /\ Advance
            /\ UNCHANGED failedStep

(* lines 69-78: the result of self.process is recorded; after the break    *)
(* lines 80-81 run on the status just set                                   *)
Record(agent_name, result) ==
    /\ results' = Put(results, wfI, result)
    /\ IF result.status = "error"
       THEN /\ wfStatus' = FinalStatus("error")
            /\ failedStep' = {wfI}
            /\ wfPc' = "done"
            /\ UNCHANGED <<context, wfI>>
       ELSE /\ context' = Put(context, agent_name, result)
            /\ Advance
            /\ UNCHANGED failedStep

(* the steps a caller may put in a workflow *)
StepChoices ==
    {[agent |-> "search", input |-> [query |-> Str("q")]],
     [agent |-> "payment",
      input |-> [query |-> Str("q"), context |-> [search |-> Str("B")]]],
     [agent |-> "notification", input |-> [context |-> [k |-> Str("v")]]],
     [agent |-> "badagent"],
     [input |-> [query |-> Str("q")]],
     [agent |-> ""],
     [agent |-> "search", input |-> [query |-> Null]],
     [agent |-> "payment", input |-> [query |-> Str("q"), context |-> Null]]}

Workflows == UNION {[1..n -> StepChoices] : n \in 0..MaxSteps}

(* process_workflow(workflow) is called: lines 49-50 *)
WfStart(steps) ==
    /\ wfPc = "idle"
    /\ workflow' = steps
    /\ wfInput' = steps
    /\ wfI' = 0
    /\ results' = EmptyMap
    /\ context' = EmptyMap
    /\ failedStep' = {}
    /\ dispatched' = <<>>
    /\ IF Len(steps) = 0
       THEN wfPc' = "done" /\ wfStatus' = FinalStatus("unset")
       ELSE wfPc' = "loop" /\ wfStatus' = "unset"
    /\ UNCHANGED <<agentVars, lastTool, callVars, api, bookingVars>>

(* a step without an agent name treated like a failed dispatch *)
WfNoAgentHalts ==
    /\ wfPc = "loop"
    /\ NoAgent(workflow[wfI + 1])
    /\ results' = Put(results, wfI, NoAgentResult)
    /\ wfStatus' = "error"
    /\ failedStep' = {wfI}
    /\ wfPc' = "done"
    /\ UNCHANGED <<workflow, wfInput, wfI, context, dispatched>>
    /\ UNCHANGED <<agentVars, lastTool, callVars, api, bookingVars>>

(* one iteration for a step without an agent name: lines 53-59 *)
WfNoAgent ==
    /\ wfPc = "loop"
    /\ NoAgent(workflow[wfI + 1])
    /\ results' = Put(results, wfI, NoAgentResult)
    /\ Advance
    /\ UNCHANGED <<workflow, wfInput, failedStep, context, dispatched>>
    /\ UNCHANGED <<agentVars, lastTool, callVars, api, bookingVars>>

(* one iteration for a step with an agent name, up to the await on the      *)
(* planner or, when self.process ends at once, to the end of the iteration  *)
WfDispatch(buildOk) ==
    /\ wfPc = "loop"
    /\ LET step == workflow[wfI + 1]
       IN /\ ~NoAgent(step)
          /\ IF NullContext(step)
             THEN /\ wfPc' = "raised"
                  /\ UNCHANGED <<workflow, wfI, results, wfStatus, failedStep,
                                 context, dispatched, agentBuilt, callVars>>
             ELSE LET step_input == StepInput(step, context)
                      e == Entry(step.agent, step_input, buildOk)
                  IN /\ workflow' = [workflow EXCEPT ![wfI + 1] = StepAfter(step, context)]
                     /\ dispatched' = Append(dispatched,
                                             [step |-> wfI, agent |-> step.agent,
                                              input |-> step_input])
                     /\ agentBuilt' = BuiltAfter(step.agent, e)
                     /\ lastAgent' = AgentAfterEntry(step.agent, e)
                     /\ calls' = [calls EXCEPT !["wf"] =
                                     IF e.kind = "await" THEN e.call ELSE Idle]
                     /\ CASE e.kind = "return" -> Record(step.agent, e.result)
                          [] e.kind = "raise" ->
                                /\ wfPc' = "raised"
                                /\ UNCHANGED <<wfI, results, wfStatus, failedStep,
                                               context>>
                          [] e.kind = "await" ->
                                /\ wfPc' = "await"
                                /\ UNCHANGED <<wfI, results, wfStatus, failedStep,
                                               context>>
    /\ UNCHANGED <<wfInput, transactions, notifications, uuids, now, lastTool, api, bookingVars>>

(* the planner returns (or raises), self.process returns, lines 69-78 run *)
WfResume(raised) ==
    /\ wfPc = "await"
    /\ calls["wf"].st = "planning"
    /\ LET out == AgentOutput(calls["wf"].agent, raised)
       IN /\ lastAgent' = [kind |-> "returned", agent |-> calls["wf"].agent,
                           out |-> out]
          /\ Record(calls["wf"].agent, Wrapped(out))
    /\ calls' = [calls EXCEPT !["wf"] = Idle]
    /\ UNCHANGED <<workflow, wfInput, dispatched, agentVars, lastTool, api, bookingVars>>

(* one workflow run, its planner choosing tools *)
NextWf ==
    \/ \E w \in Workflows : WfStart(w)
    \/ WfNoAgent
    \/ \E b \in BOOLEAN : WfDispatch(b)
    \/ \E t \in TableTools("payment") \cup TableTools("notification") :
           \E p \in WorkflowPayloads(t) : ToolRound("wf", t, p)
    \/ \E raised \in BOOLEAN : WfResume(raised)

SpecWf == Init /\ [][NextWf]_vars

(* ---------------- a workflow run that may be cancelled ---------------- *)
(* the tables given back to what they were when the run started *)
WfCancelRollsBack ==
    /\ wfPc = "await"
    /\ calls["wf"].st = "planning"
    /\ wfPc' = "cancelled"
    /\ calls' = [calls EXCEPT !["wf"] = Idle]
    /\ transactions' = EmptyMap
    /\ notifications' = EmptyMap
    /\ UNCHANGED <<workflow, wfInput, wfI, results, wfStatus, failedStep, context,
                   dispatched>>
    /\ UNCHANGED <<agentBuilt, uuids, now, lastTool, lastAgent, api, bookingVars>>

(* the host cancels the request while process_workflow is suspended at its  *)
(* await: CancelledError is no Exception, so neither except clause catches  *)
(* it and it leaves process_workflow; nothing is written on the way out     *)
WfCancel ==
    /\ wfPc = "await"
    /\ calls["wf"].st = "planning"
    /\ wfPc' = "cancelled"
    /\ calls' = [calls EXCEPT !["wf"] = Idle]
    /\ UNCHANGED <<workflow, wfInput, wfI, results, wfStatus, failedStep, context,
                   dispatched>>
    /\ UNCHANGED <<agentVars, lastTool, lastAgent, api, bookingVars>>

CancelSteps ==
    {[agent |-> "payment", input |-> [query |-> Str("q")]],
     [agent |-> "notification", input |-> [query |-> Str("q")]],
     [agent |-> "search", input |-> [query |-> Str("q")]],
     [agent |-> "badagent", input |-> [query |-> Str("q")]]}

NextCancel ==
    \/ \E n \in 1..MaxSteps : \E w \in [1..n -> CancelSteps] : WfStart(w)
    \/ \E b \in BOOLEAN : WfDispatch(b)
    \/ \E t \in TableTools("payment") \cup TableTools("notification") :
           \E p \in WorkflowPayloads(t) : ToolRound("wf", t, p)
    \/ \E raised \in BOOLEAN : WfResume(raised)
    \/ WfCancel

SpecCancel == Init /\ [][NextCancel]_vars

(* ---------------- the HTTP endpoints ---------------- *)
(* raise HTTPException(status_code=400, detail=...) and a returned body *)
BadRequest(detail) == [code |-> 400, detail |-> detail]
Ok(body) == [code |-> 200, body |-> body]

(* process_agent_request, from the result of agent_manager.process on *)
AgentResponse(result) ==
    IF result.status = "error"
    THEN BadRequest(Get(result, "message", <<"Error processing request">>))
    ELSE Ok(result)

(* the dictionary process_workflow returns: the step entries, "status" and, *)
(* after a failure, "failed_step"                                           *)
WorkflowResult ==
    [k \in {"steps", "status"} \cup (IF failedStep = {} THEN {} ELSE {"failed_step"}) |->
        CASE k = "steps" -> results
          [] k = "status" -> wfStatus
          [] k = "failed_step" -> failedStep]

(* execute_workflow, from the result of agent_manager.process_workflow on *)
WorkflowResponse(result) ==
    IF Get(result, "status", "None") = "error"
    THEN BadRequest(Get(result, "message", <<"Error executing workflow">>))
    ELSE Ok(result)

(* ---------------- the tools, invoked one by one ---------------- *)
(* utcnow() moves on between two invocations, or does not *)
Tick ==
    /\ now < MaxClock
    /\ now' = now + 1
    /\ UNCHANGED <<agentBuilt, transactions, notifications, uuids, lastTool,
                   callVars, api, bookingVars, wfVars>>

(* one invocation of a tool with a raw payload, its result kept in lastTool *)
ToolCall(tool, payload) ==
    /\ LET after == ToolRun(tool, payload)
       IN /\ WithinBounds(after)
          /\ transactions' = after.txns
          /\ notifications' = after.notifs
          /\ uuids' = after.uuids
          /\ lastTool' = [tool |-> tool, payload |-> payload,
                          txnsBefore |-> transactions,
                          notifsBefore |-> notifications,
                          result |-> after.result]
    /\ UNCHANGED <<agentBuilt, now, callVars, api, bookingVars, wfVars>>

PaymentPayloads(tool) ==
    CASE tool = "process_payment" ->
             {Object(EmptyMap),
              Object([amount |-> Num(10)]),
              Object([amount |-> Num(20), currency |-> Str("EUR")]),
              Malformed, NonObject}
      [] tool = "refund_payment" ->
             {Object([transaction_id |-> TxnId(n)]) : n \in 1..MaxUuid}
             \cup {Object([transaction_id |-> TxnId(n), amount |-> Num(5)]) :
                       n \in 1..MaxUuid}
             \cup {Object([transaction_id |-> Str("nope")]), Object(EmptyMap),
                   Malformed, NonObject}
      [] tool = "get_transaction_status" ->
             {Object([transaction_id |-> TxnId(1)]),
              Object([transaction_id |-> Str("nope")]), Malformed}

NextPayment ==
    \/ \E t \in TableTools("payment") : \E p \in PaymentPayloads(t) : ToolCall(t, p)
    \/ Tick

SpecPayment == Init /\ [][NextPayment]_vars

NotificationPayloads(tool) ==
    CASE tool = "send_notification" ->
             {Object([user_id |-> Str("u1"), title |-> Str("t"), message |-> Str("m")]),
              Object([user_id |-> Str("u2"), title |-> Str("t"), message |-> Str("m"),
                      notification_type |-> Str("fax")]),
              Object(EmptyMap), Malformed, NonObject}
      [] tool = "get_user_notifications" ->
             {Object([user_id |-> Str("u1")]),
              Object([user_id |-> Str("u1"), limit |-> Num(1)]),
              Object([user_id |-> Str("u1"), unread_only |-> Bool(TRUE)]),
              Object([user_id |-> Str("u2"), limit |-> Num(0)]),
              Object(EmptyMap), Malformed, NonObject}
      [] tool = "mark_notification_read" ->
             {Object([notification_id |-> NotifId(n)]) : n \in 1..MaxNotif}
             \cup {Object([notification_id |-> Str("nope")]), Object(EmptyMap),
                   Malformed, NonObject}

NextNotification ==
    \/ \E t \in Tools("notification") :
           \E p \in NotificationPayloads(t) : ToolCall(t, p)
    \/ Tick

SpecNotification == Init /\ [][NextNotification]_vars

(* every tool of every agent on a raw payload *)
SearchPayloads ==
    {Object([origin |-> Str("A"), destination |-> Str("B"),
             departure_date |-> Str("d"), date |-> Str("d")]),
     Object(EmptyMap), Malformed, NonObject}

AgentPayloads(key, tool) ==
    CASE key = "search" -> SearchPayloads
      [] key = "optimizer" ->
             {Object([options |-> <<[id |-> Str("a"), price |-> Num(1000),
                                     duration_minutes |-> Num(600)]>>]),
              Object(EmptyMap), Malformed, NonObject}
      [] key = "payment" -> PlannerPayloads(tool) \cup {Malformed, NonObject}
      [] key = "notification" -> PlannerPayloads(tool) \cup {Malformed, NonObject}

NextTools ==
    \E key \in Registry : \E t \in Tools(key) :
        \E p \in AgentPayloads(key, t) : ToolCall(t, p)

SpecTools == Init /\ [][NextTools]_vars

(* the optimizer tools on lists of options; numbers in tenths *)
OptionChoices ==
    {[id |-> Str("a"), price |-> Num(1000), duration_minutes |-> Num(600)],
     [id |-> Str("b"), price |-> Num(500), duration_minutes |-> Num(900)],
     [id |-> Str("c"), price |-> Num(500), duration_minutes |-> Num(605)],
     [id |-> Str("d"), price |-> Num(700)],
     [id |-> Str("e"), duration_minutes |-> Num(602)]}

OptionLists == UNION {[1..n -> OptionChoices] : n \in 0..MaxOptions}

OptimizerPayloads ==
    {Object([options |-> options]) : options \in OptionLists}
    \cup {Object([options |-> options,
                  preferences |-> [price_importance |-> Num(10),
                                   duration_importance |-> Num(0)]]) :
              options \in OptionLists}
    \cup {Object(EmptyMap), Malformed, NonObject}

(* the planner has a payload at hand for the optimizer *)
InitOptimizer ==
    /\ agentBuilt = [a \in Registry |-> FALSE]
    /\ transactions = EmptyMap
    /\ notifications = EmptyMap
    /\ uuids = 0
    /\ now = 0
    /\ \E payload \in OptimizerPayloads :
           lastTool = [tool |-> "none", payload |-> payload]
    /\ calls = [r \in Requesters |-> Idle]
    /\ lastAgent = [kind |-> "none"]
    /\ api = [st |-> "idle"]
    /\ workflow = <<>>
    /\ wfInput = <<>>
    /\ wfPc = "idle"
    /\ wfI = 0
    /\ results = EmptyMap
    /\ wfStatus = "unset"
    /\ failedStep = {}
    /\ context = EmptyMap
    /\ dispatched = <<>>
    /\ bookings = EmptyMap
    /\ cancel = [st |-> "idle"]

(* one optimizer tool is invoked with the payload at hand *)
OptimizerCall(tool) ==
    /\ lastTool.tool = "none"
    /\ ToolCall(tool, lastTool.payload)

NextOptimizer == \E t \in Tools("optimizer") : OptimizerCall(t)

SpecOptimizer == InitOptimizer /\ [][NextOptimizer]_vars

(* ---------------- two requests on the notification agent ---------------- *)
(* a request to the endpoint and a workflow run are in progress together;   *)
(* each is suspended at its await on the planner, and the tool rounds of    *)
(* the two planners interleave. A tool body has no await: it runs as one    *)
(* step. lastTool also counts the sends that returned "success".            *)
SentSoFar == Get(lastTool, "sent", 0)

SendRound(r, payload) ==
    /\ calls[r].st = "planning"
    /\ calls[r].agent = "notification"
    /\ calls[r].rounds < MaxIterations
    /\ LET after == ToolRun("send_notification", payload)
       IN /\ WithinBounds(after)
          /\ notifications' = after.notifs
          /\ lastTool' = [tool |-> "send_notification", payload |-> payload,
                          txnsBefore |-> transactions,
                          notifsBefore |-> notifications,
                          result |-> after.result,
                          by |-> r,
                          sent |-> IF after.result.status = "success"
                                   THEN SentSoFar + 1 ELSE SentSoFar]
    /\ calls' = [calls EXCEPT ![r].rounds = @ + 1]
    /\ UNCHANGED <<agentBuilt, transactions, uuids, now, lastAgent, api, bookingVars, wfVars>>

SendPayloads ==
    {Object([user_id |-> Str("u1"), title |-> Str("t"), message |-> Str("m")]),
     Object([user_id |-> Str("u2"), title |-> Str("t"), message |-> Str("m")]),
     Malformed}

NotificationStep == [agent |-> "notification", input |-> [query |-> Str("q")]]

NextConcurrent ==
    \/ \E a \in {"notification", "payment"}, b \in BOOLEAN :
           ApiCall(a, [query |-> Str("q")], b)
    \/ ApiFinish(FALSE)
    \/ \E n \in 1..2 : WfStart([i \in 1..n |-> NotificationStep])
    \/ \E b \in BOOLEAN : WfDispatch(b)
    \/ WfResume(FALSE)
    \/ \E r \in Requesters : \E p \in SendPayloads : SendRound(r, p)

SpecConcurrent == Init /\ [][NextConcurrent]_vars

(* ---------------- the bookings endpoint: cancel_booking ---------------- *)
MaxBooking == 1
CurrentUsers == {1, 2}

(* the rows the bookings table can hold before a cancellation; the columns  *)
(* payment_status and payment_reference are written by the payment side     *)
BookingRows ==
    {[user_id |-> 1, status |-> s, is_cancellable |-> c, amount |-> Num(10),
      payment_status |-> ps, updated_at |-> Null,
      payment_reference |-> IF ps = "completed" THEN TxnId(1) ELSE Null] :
        s \in {"pending", "confirmed", "cancelled"}, c \in BOOLEAN,
        ps \in {"pending", "completed"}}

(* a row comes into the table under the next primary key *)
BookingRow(row) ==
    /\ Cardinality(DOMAIN bookings) < MaxBooking
    /\ bookings' = Put(bookings, Cardinality(DOMAIN bookings) + 1, row)
    /\ UNCHANGED <<agentVars, lastTool, callVars, api, wfVars, cancel>>

(* the two inputs cancel_booking hands to AgentManager.process *)
RefundInput(booking) ==
    [query |-> Str("refund_payment"),
     context |-> [transaction_id |-> booking.payment_reference,
                  amount |-> booking.amount]]

NotifyInput(current_user) ==
    [query |-> Str("send_notification"),
     context |-> [user_id |-> current_user, title |-> Str("Booking Cancelled"),
                  message |-> Str("Your booking has been cancelled."),
                  notification_type |-> Str("email")]]

(* if refund_result.get("status") == "success": payment_status = "refunded" *)
AfterRefund(booking, refund_result) ==
    IF refund_result.status = "success"
    THEN [booking EXCEPT !.payment_status = "refunded"]
    ELSE booking

(* db.commit(), db.refresh(booking), then the notification call up to its   *)
(* await or its end; agentBefore is how the last agent call ended so far    *)
CommitAndNotify(booking_id, current_user, booking, buildOk, agentBefore) ==
    LET e == Entry("notification", NotifyInput(current_user), buildOk)
        request == [booking_id |-> booking_id, current_user |-> current_user,
                    booking |-> booking]
    IN /\ bookings' = Put(bookings, booking_id, booking)
       /\ cancel' = CASE e.kind = "await" -> request @@ [st |-> "notify"]
                      [] e.kind = "return" -> request @@ [st |-> "returned"]
                      [] e.kind = "raise" -> request @@ [st |-> "raised"]
       /\ calls' = [calls EXCEPT !["bookings"] =
                       IF e.kind = "await" THEN e.call ELSE Idle]
       /\ agentBuilt' = BuiltAfter("notification", e)
       /\ lastAgent' = IF e.kind = "return"
                       THEN AgentAfterEntry("notification", e)
                       ELSE agentBefore

(* an HTTPException: nothing is written *)
Rejected(booking_id, current_user, code, detail) ==
    /\ cancel' = [st |-> "rejected", booking_id |-> booking_id,
                  current_user |-> current_user, status_code |-> code,
                  detail |-> detail]
    /\ UNCHANGED <<agentBuilt, callVars, bookings>>

(* cancel_booking(booking_id) of current_user, up to its first await on an  *)
(* agent or its end                                                          *)
CancelBooking(booking_id, current_user, payOk, notifOk) ==
    /\ cancel.st \notin {"refund", "notify"}
    /\ IF booking_id \notin DOMAIN bookings
       THEN Rejected(booking_id, current_user, 404, "Booking not found")
       ELSE IF bookings[booking_id].user_id # current_user
       THEN Rejected(booking_id, current_user, 404, "Booking not found")
       ELSE IF bookings[booking_id].status = "cancelled"
       THEN Rejected(booking_id, current_user, 400, "Booking is already cancelled")
       ELSE IF ~bookings[booking_id].is_cancellable
       THEN Rejected(booking_id, current_user, 400,
                     "This booking cannot be cancelled")
       ELSE LET booking == [bookings[booking_id] EXCEPT !.status = "cancelled",
                                                        !.updated_at = Time(now)]
            IN IF booking.payment_status = "completed"
               THEN LET e == Entry("payment", RefundInput(booking), payOk)
                    IN IF e.kind = "await"
                       THEN /\ cancel' = [st |-> "refund",
                                          booking_id |-> booking_id,
                                          current_user |-> current_user,
                                          booking |-> booking]
                            /\ calls' = [calls EXCEPT !["bookings"] = e.call]
                            /\ agentBuilt' = BuiltAfter("payment", e)
                            /\ UNCHANGED <<lastAgent, bookings>>
                       ELSE CommitAndNotify(booking_id, current_user,
                                            AfterRefund(booking, e.result), notifOk,
                                            AgentAfterEntry("payment", e))
               ELSE CommitAndNotify(booking_id, current_user, booking, notifOk,
                                    lastAgent)
    /\ UNCHANGED <<transactions, notifications, uuids, now, lastTool, api, wfVars>>

(* the refund call returns: lines 187-208, up to the await on the           *)
(* notification agent                                                        *)
CancelRefundReturns(raised, notifOk) ==
    /\ cancel.st = "refund"
    /\ LET out == AgentOutput("payment", raised)
       IN CommitAndNotify(cancel.booking_id, cancel.current_user,
                          AfterRefund(cancel.booking, Wrapped(out)), notifOk,
                          [kind |-> "returned", agent |-> "payment", out |-> out])
    /\ UNCHANGED <<transactions, notifications, uuids, now, lastTool, api, wfVars>>

(* the notification call returns and cancel_booking returns the booking *)
CancelNotifyReturns(raised) ==
    /\ cancel.st = "notify"
    /\ cancel' = [cancel EXCEPT !.st = "returned"]
    /\ calls' = [calls EXCEPT !["bookings"] = Idle]
    /\ lastAgent' = [kind |-> "returned", agent |-> "notification",
                     out |-> AgentOutput("notification", raised)]
    /\ UNCHANGED <<agentVars, lastTool, api, wfVars, bookings>>

(* the payloads the planner of the refund call hands to the payment tools *)
RefundPayloads(tool) ==
    CASE tool = "process_payment" -> {Object([amount |-> Num(10)])}
      [] tool = "refund_payment" -> {Object([transaction_id |-> TxnId(1)])}
      [] OTHER -> {}

NextBooking ==
    \/ \E row \in BookingRows : BookingRow(row)
    \/ \E id \in 1..MaxBooking, u \in CurrentUsers, payOk \in BOOLEAN,
          notifOk \in BOOLEAN : CancelBooking(id, u, payOk, notifOk)
    \/ \E t \in TableTools("payment") :
           \E p \in RefundPayloads(t) : ToolRound("bookings", t, p)
    \/ \E raised \in BOOLEAN, notifOk \in BOOLEAN :
           CancelRefundReturns(raised, notifOk)
    \/ \E raised \in BOOLEAN : CancelNotifyReturns(raised)

SpecBooking == Init /\ [][NextBooking]_vars

(* ======================= the claims ======================= *)
StepIndexes == {d \in 0..(Len(workflow) - 1) : d \in DOMAIN results}
DispatchedSteps == {dispatched[j].step : j \in 1..Len(dispatched)}
AgentOf(step) == Get(step, "agent", "")
OwnContext(step) == Get(Get(step, "input", EmptyMap), "context", EmptyMap)
AgentFailed(result) ==
    IF "metadata" \in DOMAIN result THEN "error" \in DOMAIN result.metadata ELSE FALSE

(* C1: when the dispatch of step k returns an error and steps follow k, the *)
(* result holds exactly step_0..step_k, its status is "error", failed_step  *)
(* is k, the run is over and no step after k was dispatched.                *)
C1_FailFast ==
    \A k \in DOMAIN results :
        (results[k].status = "error" /\ k \in DispatchedSteps
             /\ k + 1 < Len(workflow))
        => /\ DOMAIN results = 0..k
           /\ wfStatus = "error"
           /\ failedStep = {k}
           /\ wfPc = "done"
           /\ \A j \in DispatchedSteps : j <= k

C1_Witness ==
    /\ wfPc = "done"
    /\ Len(workflow) = 3
    /\ failedStep = {1}
    /\ AgentOf(workflow[1]) = "search"
    /\ AgentOf(workflow[2]) = "badagent"
    /\ results[0].status = "success"
    /\ results[1] = NotFound("badagent")

(* C2 (as claimed): every dispatch of the workflow carries, for each key of *)
(* the step's own input context, the value the step gave it.                *)
C2_ExplicitWins ==
    \A j \in 1..Len(dispatched) :
        LET own == OwnContext(wfInput[dispatched[j].step + 1])
        IN \A x \in DOMAIN own : dispatched[j].input.context[x] = own[x]

(* C3: a process call for a name outside the registry returns the not-found *)
(* error, raises nothing, starts no agent call and changes no agent state.  *)
C3_UnknownAgent ==
    [][(api' # api /\ api'.agent_name \notin Registry)
       => /\ api'.st = "returned"
          /\ api'.result = NotFound(api'.agent_name)
          /\ UNCHANGED <<agentVars, callVars>>]_vars

C3_Witness ==
    /\ api.st = "returned"
    /\ api.agent_name = "PaymentAgent"
    /\ api.input_data = [query |-> Null]
    /\ api.result = NotFound("PaymentAgent")
    /\ transactions # EmptyMap
    /\ agentBuilt["payment"]

(* C4 (as claimed): no exception leaves AgentManager.process; every call    *)
(* ends with a result whose status is "success" or "error".                 *)
C4_NoExceptionEscapes ==
    /\ api.st # "raised"
    /\ api.st = "returned" => api.result.status \in {"success", "error"}

(* C5 (as claimed): a step whose agent failed is recorded with status       *)
(* "error" and halts the workflow there.                                    *)
C5_FailureIsError ==
    \A k \in DOMAIN results :
        AgentFailed(results[k]) => results[k].status = "error" /\ failedStep = {k}

(* C6 (as claimed): Agent.process never raises.                             *)
C6_ProcessNeverRaises == lastAgent.kind # "raised"

(* C7: a step without an agent name records the "No agent specified" error *)
(* under its index, dispatches nothing, leaves the context alone and does   *)
(* not end the run; a run in which no dispatched step returned an error     *)
(* processes every step and ends with status "success" and no failed_step.  *)
C7_NoAgentStep ==
    /\ [](\A k \in DOMAIN results :
             NoAgent(wfInput[k + 1])
             => results[k] = NoAgentResult /\ k \notin DispatchedSteps)
    /\ []((wfPc = "done"
            /\ \A k \in DOMAIN results :
                   results[k].status = "error" => k \notin DispatchedSteps)
          => /\ wfStatus = "success"
             /\ failedStep = {}
             /\ DOMAIN results = 0..(Len(workflow) - 1))
    /\ [][(wfPc = "loop" /\ NoAgent(workflow[wfI + 1]))
          => /\ results' = Put(results, wfI, NoAgentResult)
             /\ UNCHANGED <<context, dispatched, failedStep, agentVars, callVars>>
             /\ wfI' = wfI + 1
             /\ wfI + 1 < Len(workflow) => (wfPc' = "loop" /\ wfStatus' = "unset")
             /\ wfI + 1 = Len(workflow) => (wfPc' = "done" /\ wfStatus' = "success")]_vars

C7_Witness ==
    /\ wfPc = "done"
    /\ Len(workflow) = 3
    /\ NoAgent(workflow[1])
    /\ results[0] = NoAgentResult
    /\ results[1].status = "success"
    /\ results[2].status = "success"
    /\ wfStatus = "success"
    /\ failedStep = {}
    /\ DOMAIN context = {AgentOf(workflow[2]), AgentOf(workflow[3])}

(* C8: the keys of the context are exactly the agent names of the steps     *)
(* that returned success; after a one-step workflow whose step succeeded    *)
(* the status is "success" and the context is that one entry, the result.   *)
C8_ContextKeys ==
    /\ DOMAIN context =
           {workflow[k + 1].agent : k \in {d \in StepIndexes : results[d].status = "success"}}
    /\ (wfPc = "done" /\ Len(workflow) = 1 /\ 0 \in DOMAIN results)
       => (results[0].status = "success"
           => /\ wfStatus = "success"
              /\ context = Put(EmptyMap, workflow[1].agent, results[0]))

C8_Witness ==
    /\ wfPc = "done"
    /\ Len(workflow) = 1
    /\ wfStatus = "success"
    /\ context = Put(EmptyMap, "payment", results[0])
    /\ transactions # EmptyMap

C10_RefundDefault ==
    (lastTool.tool = "refund_payment" /\ lastTool.payload.j = "object")
    => LET data == lastTool.payload.f
           id == Get(data, "transaction_id", Null)
       IN IF id \in DOMAIN lastTool.txnsBefore
          THEN "amount" \notin DOMAIN data
               => /\ lastTool.result.status = "success"
                  /\ lastTool.result.amount_refunded = lastTool.txnsBefore[id].amount
                  /\ transactions[id].refund_amount = lastTool.txnsBefore[id].amount
                  /\ transactions[id].amount = lastTool.txnsBefore[id].amount
          ELSE /\ lastTool.result = ToolError(<<"Transaction not found">>)
               /\ transactions = lastTool.txnsBefore

C10_Witness ==
    /\ lastTool.tool = "refund_payment"
    /\ lastTool.payload = Object([transaction_id |-> TxnId(1)])
    /\ lastTool.result.status = "success"
    /\ lastTool.result.amount_refunded = Num(20)
    /\ transactions[TxnId(1)].refund_amount = Num(20)

(* C11: whatever the tool and whatever the agent, a raw payload that is not *)
(* parseable JSON or is JSON other than an object gives a result with       *)
(* status "error" and a message, and the tables of the payment and of the   *)
(* notification agent are what they were before the call.                   *)
C11_MalformedPayload ==
    (lastTool.tool # "none" /\ lastTool.payload.j # "object")
    => /\ lastTool.result.status = "error"
       /\ "message" \in DOMAIN lastTool.result
       /\ transactions = lastTool.txnsBefore
       /\ notifications = lastTool.notifsBefore

C11_Witness ==
    /\ lastTool.tool = "send_notification"
    /\ lastTool.payload = NonObject
    /\ lastTool.notifsBefore # EmptyMap
    /\ lastTool.txnsBefore # EmptyMap
    /\ lastTool.result.status = "error"

(* the fields the tool descriptions of _setup_tools name as the input *)
RequiredFields(tool) ==
    CASE tool = "send_notification" -> {"user_id", "title", "message"}
      [] tool = "process_payment" ->
             {"amount", "payment_method", "booking_reference", "user_id"}
      [] OTHER -> {}

(* C12: a payload that is a JSON object but lacks a required field of       *)
(* send_notification or process_payment gives a result with status "error"  *)
(* and creates no notification and no transaction.                          *)
C12_MissingRequiredField ==
    (/\ lastTool.tool \in {"send_notification", "process_payment"}
     /\ lastTool.payload.j = "object"
     /\ ~(RequiredFields(lastTool.tool) \subseteq DOMAIN lastTool.payload.f))
    => /\ lastTool.result.status = "error"
       /\ transactions = lastTool.txnsBefore
       /\ notifications = lastTool.notifsBefore

(* the field a tool minimises *)
MinimisedField(tool) ==
    IF tool = "find_cheapest_option" THEN "price" ELSE "duration_minutes"

(* option is an element of options that no option of the list is below *)
IsMinimum(option, options, field) ==
    /\ \E i \in 1..Len(options) : options[i] = option
    /\ \A i \in 1..Len(options) :
           field \in DOMAIN options[i]
           => /\ field \in DOMAIN option
              /\ option[field].n <= options[i][field].n

(* C13: find_cheapest_option and find_fastest_option return, for a          *)
(* non-empty list of options, status "success" with an element of the list  *)
(* whose price (duration) no option of the list is below, and for an empty  *)
(* or absent list a result with status "error".                             *)
C13_MinimumOption ==
    (/\ lastTool.tool \in {"find_cheapest_option", "find_fastest_option"}
     /\ lastTool.payload.j = "object")
    => LET options == Get(lastTool.payload.f, "options", <<>>)
       IN IF options = <<>>
          THEN lastTool.result.status = "error"
          ELSE /\ lastTool.result.status = "success"
               /\ IsMinimum(lastTool.result.result, options,
                            MinimisedField(lastTool.tool))

(* C14: a result of the dispatcher with status "error" becomes a 4xx        *)
(* response with the message of the result; a workflow result with status   *)
(* "error" becomes a 4xx response with the message of the failed step; and  *)
(* a 2xx response of execute_workflow holds no step entry with status       *)
(* "error". Steps are as the WorkflowStep schema admits them: with an agent.*)
C14_ErrorsBecome4xx ==
    /\ (api.st = "returned" /\ api.result.status = "error")
       => AgentResponse(api.result) = BadRequest(api.result.message)
    /\ (wfPc = "done" /\ \A i \in 1..Len(workflow) : "agent" \in DOMAIN workflow[i])
       => LET response == WorkflowResponse(WorkflowResult)
          IN /\ wfStatus = "error"
                => /\ response.code = 400
                   /\ \E k \in failedStep : response.detail = results[k].message
             /\ response.code = 200
                => \A k \in DOMAIN results : results[k].status # "error"

(* the steps before step i whose entry has status "success" and whose agent *)
(* name is a                                                                *)
SucceededBefore(i, a) ==
    {j \in DOMAIN results :
        j < i /\ results[j].status = "success" /\ AgentOf(workflow[j + 1]) = a}

(* C15: a step is dispatched only when the entries of all steps before it   *)
(* are recorded and no dispatch of the run is in flight, the steps are      *)
(* dispatched in increasing order, and the context of the dispatch holds,   *)
(* under every agent name that succeeded before, the entry of the latest    *)
(* step in which it succeeded.                                              *)
C15_StepsInOrder ==
    [][(dispatched' # dispatched /\ dispatched' # <<>>)
       => LET d == dispatched'[Len(dispatched')]
          IN /\ dispatched' = Append(dispatched, d)
             /\ d.step = wfI
             /\ DOMAIN results = 0..(d.step - 1)
             /\ \A j \in 1..Len(dispatched) : dispatched[j].step < d.step
             /\ calls["wf"] = Idle
             /\ \A j \in DOMAIN results :
                    results[j].status = "success"
                    => LET a == AgentOf(workflow[j + 1])
                           latest == CHOOSE m \in SucceededBefore(d.step, a) :
                                         \A n \in SucceededBefore(d.step, a) : n <= m
                       IN /\ a \in DOMAIN d.input.context
                          /\ d.input.context[a] = results[latest]]_vars

C15_Witness ==
    /\ Len(dispatched) = 3
    /\ AgentOf(workflow[1]) = "search"
    /\ AgentOf(workflow[2]) = "search"
    /\ DOMAIN results = {0, 1}
    /\ results[0].status = "success"
    /\ results[1].status = "success"
    /\ results[0] # results[1]
    /\ dispatched[3].input.context["search"] = results[1]
    /\ wfPc = "await"

(* C16: the recorded entries are those of steps 0..m without a gap, one for *)
(* each step the loop has gone through; the status of a finished run is     *)
(* "error" exactly when a failed step is recorded, the failed step is then  *)
(* the last entry m and that entry has status "error"; and no step of the   *)
(* run changes or removes an entry once it is recorded.                     *)
C16_ResultShape ==
    [][/\ \E n \in 0..Len(workflow') : DOMAIN results' = 0..(n - 1)
       /\ DOMAIN results' = 0..(IF failedStep' = {} THEN wfI' - 1 ELSE wfI')
       /\ wfPc' = "done"
          => /\ wfStatus' \in {"success", "error"}
             /\ wfStatus' = "error" <=> failedStep' # {}
       /\ \A k \in failedStep' :
              /\ failedStep' = {k}
              /\ k \in DOMAIN results'
              /\ \A j \in DOMAIN results' : j <= k
              /\ results'[k].status = "error"
              /\ wfStatus' = "error"
       /\ wfPc # "idle"
          => \A k \in DOMAIN results :
                 k \in DOMAIN results' /\ results'[k] = results[k]]_vars

C16_Witness ==
    /\ wfPc = "done"
    /\ failedStep = {2}
    /\ DOMAIN results = {0, 1, 2}
    /\ results[0] = NoAgentResult
    /\ results[1].status = "success"
    /\ wfStatus = "error"

(* C17: once a transaction carries the fields of a refund, refund_id,       *)
(* refund_amount and refund_timestamp stay what they are, whatever tool is  *)
(* called afterwards.                                                       *)
C17_RefundedOnce ==
    [][\A id \in DOMAIN transactions :
          "refund_id" \in DOMAIN transactions[id]
          => /\ id \in DOMAIN transactions'
             /\ transactions'[id].refund_id = transactions[id].refund_id
             /\ transactions'[id].refund_amount = transactions[id].refund_amount
             /\ transactions'[id].refund_timestamp
                    = transactions[id].refund_timestamp]_vars

(* the fields of a transaction written by _process_payment *)
PaymentFields ==
    {"transaction_id", "amount", "currency", "status", "payment_method",
     "booking_reference", "user_id", "timestamp"}

(* C18: the status of every stored transaction is "completed" or "failed";  *)
(* no tool call removes a transaction or changes its status, id, amount,    *)
(* currency, payment method, booking reference, user id or timestamp; a     *)
(* transaction is created by process_payment only, with the currency "USD"  *)
(* when the payload has none.                                               *)
C18_PaymentFieldsFixed ==
    [][/\ \A id \in DOMAIN transactions' :
              /\ transactions'[id].status \in {"completed", "failed"}
              /\ transactions'[id].transaction_id = id
       /\ \A id \in DOMAIN transactions :
              /\ id \in DOMAIN transactions'
              /\ \A f \in PaymentFields : transactions'[id][f] = transactions[id][f]
       /\ \A id \in DOMAIN transactions' \ DOMAIN transactions :
              /\ lastTool'.tool = "process_payment"
              /\ lastTool'.payload.j = "object"
              /\ "currency" \notin DOMAIN lastTool'.payload.f
                    => transactions'[id].currency = Str("USD")
              /\ "currency" \in DOMAIN lastTool'.payload.f
                    => transactions'[id].currency = lastTool'.payload.f.currency]_vars

C18_Witness ==
    /\ lastTool.tool = "refund_payment"
    /\ lastTool.result.status = "success"
    /\ \E id \in DOMAIN transactions :
           /\ "refund_id" \in DOMAIN transactions[id]
           /\ "refund_id" \notin DOMAIN lastTool.txnsBefore[id]
           /\ transactions[id].currency = Str("USD")
           /\ transactions[id].status = "completed"
    /\ \E id \in DOMAIN transactions : transactions[id].currency = Str("EUR")

(* C19: no tool call removes a stored notification or changes a field of it *)
(* other than is_read and read_at; a notification is unread when it is      *)
(* created and a read one stays read; and a stored notification changes     *)
(* only in a call of mark_notification_read with its own id.                *)
C19_NotificationsKept ==
    [][/\ \A id \in DOMAIN notifications :
              /\ id \in DOMAIN notifications'
              /\ \A f \in DOMAIN notifications[id] \ {"is_read", "read_at"} :
                     /\ f \in DOMAIN notifications'[id]
                     /\ notifications'[id][f] = notifications[id][f]
              /\ notifications[id].is_read => notifications'[id].is_read
              /\ notifications'[id] # notifications[id]
                    => /\ lastTool'.tool = "mark_notification_read"
                       /\ lastTool'.payload.j = "object"
                       /\ Get(lastTool'.payload.f, "notification_id", Null) = id
       /\ \A id \in DOMAIN notifications' \ DOMAIN notifications :
              /\ lastTool'.tool = "send_notification"
              /\ ~notifications'[id].is_read]_vars

C19_Witness ==
    /\ lastTool.tool = "get_user_notifications"
    /\ lastTool.result.status = "success"
    /\ lastTool.result.total = 1
    /\ Cardinality(DOMAIN notifications) = 2
    /\ \E id \in DOMAIN notifications :
           /\ notifications[id].is_read
           /\ notifications[id].read_at # notifications[id].created_at
    /\ \E id \in DOMAIN notifications : ~notifications[id].is_read

(* C20: with the sends of two requests interleaved, after n sends that      *)
(* returned "success" the table holds n notifications, their ids are        *)
(* notif_1..notif_n, each is stored under its own id, and the last send     *)
(* left every earlier notification as it was.                               *)
C20_SequentialIds ==
    /\ Cardinality(DOMAIN notifications) = SentSoFar
    /\ DOMAIN notifications = {NotifId(k) : k \in 1..SentSoFar}
    /\ \A id \in DOMAIN notifications : notifications[id].notification_id = id
    /\ (lastTool.tool = "send_notification" /\ lastTool.result.status = "success")
       => /\ lastTool.result.notification_id \notin DOMAIN lastTool.notifsBefore
          /\ \A id \in DOMAIN lastTool.notifsBefore :
                 notifications[id] = lastTool.notifsBefore[id]

C20_Witness ==
    /\ calls["api"].st = "planning" /\ calls["api"].rounds = 1
    /\ calls["wf"].st = "planning" /\ calls["wf"].rounds = 1
    /\ SentSoFar = 2
    /\ lastTool.by = "api"
    /\ notifications[NotifId(1)].user_id = Str("u1")
    /\ notifications[NotifId(2)].user_id = Str("u2")

(* the channels the tool description and the branches of lines 93-98 name *)
Channels == {Str("email"), Str("sms"), Str("push")}

(* C21: the channel of every stored notification is email, sms or push; it  *)
(* is email when the payload of the send gave none.                         *)
C21_ChannelValues ==
    /\ \A id \in DOMAIN notifications :
           notifications[id].notification_type \in Channels
    /\ (/\ lastTool.tool = "send_notification"
        /\ lastTool.result.status = "success"
        /\ "notification_type" \notin DOMAIN lastTool.payload.f)
       => notifications[lastTool.result.notification_id].notification_type
              = Str("email")

(* the ids of the stored notifications a listing call asks for *)
Asked(notifs, data) ==
    {id \in DOMAIN notifs :
        /\ notifs[id].user_id = Get(data, "user_id", Null)
        /\ Truthy(Get(data, "unread_only", Bool(FALSE))) => ~notifs[id].is_read}

(* C22: get_user_notifications returns notifications of the asked user      *)
(* only (unread ones only when unread_only is set), each once, newest       *)
(* first, as many as the limit allows (10 when none is given) and none      *)
(* left out that is newer than a listed one; total and unread_count count   *)
(* the asked notifications before the truncation; the store is unchanged.   *)
C22_Listing ==
    (/\ lastTool.tool = "get_user_notifications"
     /\ lastTool.payload.j = "object")
    => LET data == lastTool.payload.f
           stored == lastTool.notifsBefore
           asked == Asked(stored, data)
           limit == Get(data, "limit", Num(10)).n
           listed == lastTool.result.notifications
           ids == {listed[i].notification_id : i \in 1..Len(listed)}
       IN /\ lastTool.result.status = "success"
          /\ ids \subseteq asked
          /\ \A i \in 1..Len(listed) : listed[i] = stored[listed[i].notification_id]
          /\ Cardinality(ids) = Len(listed)
          /\ Len(listed) = IF limit < Cardinality(asked)
                           THEN limit ELSE Cardinality(asked)
          /\ \A i, j \in 1..Len(listed) :
                 i < j => listed[i].created_at.at >= listed[j].created_at.at
          /\ \A id \in asked \ ids : \A i \in 1..Len(listed) :
                 listed[i].created_at.at >= stored[id].created_at.at
          /\ lastTool.result.total = Cardinality(asked)
          /\ lastTool.result.unread_count
                 = Cardinality({id \in asked : ~stored[id].is_read})
          /\ notifications = stored

C22_Witness ==
    /\ lastTool.tool = "get_user_notifications"
    /\ lastTool.payload = Object([user_id |-> Str("u1"), limit |-> Num(1)])
    /\ lastTool.result.total = 2
    /\ lastTool.result.unread_count = 1
    /\ Len(lastTool.result.notifications) = 1
    /\ lastTool.result.notifications[1].notification_id = NotifId(2)
    /\ notifications[NotifId(1)].created_at # notifications[NotifId(2)].created_at

(* the largest value of a field over the options, 0 for an option without   *)
(* the field                                                                *)
Largest(options, field) ==
    LET values == {Get(options[i], field, Num(0)).n : i \in 1..Len(options)}
    IN CHOOSE v \in values : \A w \in values : w <= v

(* score(a) >= score(b) and score(a) = score(b) for                         *)
(* score = pw * (1 - price / maxPrice) + dw * (1 - duration / maxDuration), *)
(* both sides multiplied by maxPrice * maxDuration; a maximum of 0 makes    *)
(* every term of its field the same, whatever positive divisor is used      *)
Weighted(option, options, preferences) ==
    LET maxPrice == IF Largest(options, "price") = 0
                    THEN 1 ELSE Largest(options, "price")
        maxDuration == IF Largest(options, "duration_minutes") = 0
                       THEN 1 ELSE Largest(options, "duration_minutes")
        pw == Get(preferences, "price_importance", Num(5)).n
        dw == Get(preferences, "duration_importance", Num(5)).n
    IN pw * (maxPrice - Get(option, "price", Num(0)).n) * maxDuration
       + dw * (maxDuration - Get(option, "duration_minutes", Num(0)).n) * maxPrice

(* C23: for a non-empty list of options recommend_based_on_preferences      *)
(* returns "success"; all_ranked is the input rearranged so that the score  *)
(* never goes up and options of equal score stay in their input order; and  *)
(* result is the first of all_ranked. A list whose largest price or         *)
(* duration is 0 is ranked like any other.                                  *)
C23_Ranking ==
    (/\ lastTool.tool = "recommend_based_on_preferences"
     /\ lastTool.payload.j = "object"
     /\ Get(lastTool.payload.f, "options", <<>>) # <<>>)
    => LET options == lastTool.payload.f.options
           preferences == Get(lastTool.payload.f, "preferences", EmptyMap)
           n == Len(options)
           W(i) == Weighted(options[i], options, preferences)
       IN /\ lastTool.result.status = "success"
          /\ Len(lastTool.result.all_ranked) = n
          /\ \E f \in Permutations(1..n) :
                 /\ \A i \in 1..n : lastTool.result.all_ranked[i] = options[f[i]]
                 /\ \A i, j \in 1..n :
                        i < j => \/ W(f[i]) > W(f[j])
                                 \/ W(f[i]) = W(f[j]) /\ f[i] < f[j]
          /\ lastTool.result.result = lastTool.result.all_ranked[1]

C23_Witness ==
    /\ lastTool.tool = "recommend_based_on_preferences"
    /\ lastTool.payload.j = "object"
    /\ "preferences" \in DOMAIN lastTool.payload.f
    /\ Len(Get(lastTool.payload.f, "options", <<>>)) = 3
    /\ lastTool.payload.f.options[1].id = Str("d")
    /\ lastTool.payload.f.options[2].id = Str("c")
    /\ lastTool.payload.f.options[3].id = Str("b")
    /\ lastTool.result.status = "success"
    /\ lastTool.result.all_ranked[1].id = Str("c")
    /\ lastTool.result.all_ranked[2].id = Str("b")
    /\ lastTool.result.all_ranked[3].id = Str("d")

(* the tools that only read *)
ReadOnlyTools ==
    Tools("search") \cup Tools("optimizer")
    \cup {"get_transaction_status", "get_user_notifications"}

(* C24: a call of a payment tool leaves the notifications as they were, a   *)
(* call of a notification tool leaves the transactions as they were, and a  *)
(* call of a search tool, of an optimizer tool, of get_transaction_status   *)
(* or of get_user_notifications leaves both tables as they were.            *)
C24_ToolFrame ==
    /\ lastTool.tool \in Tools("payment") => notifications = lastTool.notifsBefore
    /\ lastTool.tool \in Tools("notification") => transactions = lastTool.txnsBefore
    /\ lastTool.tool \in ReadOnlyTools
       => /\ transactions = lastTool.txnsBefore
          /\ notifications = lastTool.notifsBefore

C24_Witness ==
    /\ lastTool.tool = "get_transaction_status"
    /\ lastTool.result.status = "success"
    /\ "refund_id" \in DOMAIN lastTool.result.transaction
    /\ notifications # EmptyMap

(* C25: the registry has the four agents at every moment; a reasoning       *)
(* capability once built stays; one is built only by a process call on its  *)
(* agent that starts in that step, and then no other agent changes; and a   *)
(* step of the dispatcher or of the workflow loop leaves the tables of the  *)
(* agents as the requests before it left them.                              *)
C25_RegistryFixed ==
    [][/\ DOMAIN agentBuilt' = Registry
       /\ \A a \in Registry : agentBuilt[a] => agentBuilt'[a]
       /\ \A a \in Registry :
              (agentBuilt'[a] /\ ~agentBuilt[a])
              => /\ \E r \in Requesters :
                        /\ calls[r] = Idle
                        /\ calls'[r].st = "planning"
                        /\ calls'[r].agent = a
                        /\ calls'[r].rounds = 0
                 /\ \A b \in Registry \ {a} : agentBuilt'[b] = agentBuilt[b]
       /\ (api' # api \/ wfPc' # wfPc \/ wfI' # wfI)
          => /\ transactions' = transactions
             /\ notifications' = notifications]_vars

C25_Witness ==
    /\ calls["api"].st = "planning" /\ calls["api"].agent = "notification"
    /\ calls["wf"].st = "planning" /\ calls["wf"].agent = "notification"
    /\ calls["wf"].rounds = 0
    /\ wfI = 1
    /\ agentBuilt["notification"] /\ agentBuilt["payment"]
    /\ ~agentBuilt["search"]
    /\ Cardinality(DOMAIN notifications) = 2

(* C26: a workflow run that is over has ended by returning a result whose   *)
(* status is "success" or "error".                                          *)
C26_RunEndsWithStatus ==
    wfPc \notin {"idle", "loop", "await"}
    => /\ wfPc = "done"
       /\ wfStatus \in {"success", "error"}

(* the run is over: it returned, or an exception or a cancellation left it *)
RunOver(pc) == pc \in {"done", "raised", "cancelled"}

(* C27: the step that ends a workflow run, by fail-fast, by cancellation or *)
(* otherwise, and every step after it leave the transactions and the        *)
(* notifications exactly as the steps of the run wrote them, and no tool    *)
(* call is in progress for the run once it is over.                         *)
C27_NoRollback ==
    [][(RunOver(wfPc') \/ RunOver(wfPc))
       => /\ transactions' = transactions
          /\ notifications' = notifications
          /\ calls'["wf"] = Idle]_vars

C27_Witness ==
    /\ wfPc = "cancelled"
    /\ DOMAIN results = {0, 1}
    /\ AgentOf(workflow[1]) = "payment"
    /\ AgentOf(workflow[2]) = "notification"
    /\ Len(workflow) = 3
    /\ transactions # EmptyMap
    /\ notifications # EmptyMap

(* C28: at every moment of a run, the list of steps the caller passed in    *)
(* still has, for every step, the input and the context the caller put      *)
(* there.                                                                   *)
C28_WorkflowUnchanged == workflow = wfInput

(* the inputs that differ from input_data in the context mapping only *)
ContextVariants(input_data) ==
    {Put(input_data, "context", c) :
        c \in {EmptyMap, [k |-> Str("v")], [search |-> Wrapped(AgentOutput("search", FALSE))]}}

(* C29: when a process call reaches the planner, the same call made in the  *)
(* same state with any other context mapping reaches the planner too and    *)
(* hands it the same request.                                               *)
C29_ContextIgnored ==
    [][(calls["api"] = Idle /\ calls'["api"].st = "planning")
       => \A other \in ContextVariants(api'.input_data) :
              LET e == Entry(api'.agent_name, other, TRUE)
              IN /\ e.kind = "await"
                 /\ e.call.agent = calls'["api"].agent
                 /\ e.call.request = calls'["api"].request]_vars

C29_Witness ==
    /\ calls["api"].st = "planning"
    /\ calls["api"].agent = "payment"
    /\ calls["api"].context = [k |-> Str("v")]
    /\ calls["api"].request = <<Str("q")>>
    /\ transactions # EmptyMap

(* C30: a booking's payment_status becomes "refunded" only when the payment *)
(* agent holds a refund on the booking's transaction; a request on a        *)
(* cancelled or non-cancellable booking is rejected, changes no row and     *)
(* calls no agent; a cancelled booking stays cancelled.                      *)
RefundRecorded(txns, payment_reference) ==
    /\ payment_reference \in DOMAIN txns
    /\ "refund_id" \in DOMAIN txns[payment_reference]

C30_BookingCancellation ==
    [][/\ \A id \in DOMAIN bookings :
              (bookings'[id].payment_status = "refunded"
                  /\ bookings[id].payment_status # "refunded")
              => RefundRecorded(transactions', bookings'[id].payment_reference)
       /\ (cancel' # cancel /\ cancel.st \notin {"refund", "notify"})
          => LET id == cancel'.booking_id
             IN (id \in DOMAIN bookings
                    /\ bookings[id].user_id = cancel'.current_user
                    /\ (bookings[id].status = "cancelled"
                           \/ ~bookings[id].is_cancellable))
                => /\ cancel'.st = "rejected"
                   /\ UNCHANGED <<bookings, agentVars, callVars>>
       /\ \A id \in DOMAIN bookings :
              bookings[id].status = "cancelled"
              => bookings'[id].status = "cancelled"]_vars

====
